---- MODULE Spec2Model ----
(***************************************************************************)
(* A model of the trackmint backend's order lifecycle, stock ledger and    *)
(* BOM cost roll-up, as implemented by the request handlers under          *)
(* backend/app/api/routes and the helpers of backend/app/utils.            *)
(*                                                                         *)
(* Entities are records holding the fields the handlers read and write.    *)
(* Every handler is one action: it runs from its first query to its        *)
(* db.commit() (or to the exception that ends it, which commits nothing).  *)
(* Money is counted in cents, component quantities in thousandths.         *)
(***************************************************************************)
EXTENDS Integers, Sequences, FiniteSets, TLC

VARIABLES
    autoflush,       \* whether the request's Session flushes before a query
    today,           \* the clock's current day
    last,            \* the last request served and its response
    mos,             \* table manufacturing_orders, in insertion order
    wos,             \* table work_orders, in insertion order
    products,        \* table products
    stock_moves,     \* table stock_moves, the stock ledger
    boms,            \* table boms
    bom_components,  \* table bom_components
    bom_operations,  \* table bom_operations
    call,            \* the last call of a validation helper
    result,          \* what that call returned or raised
    requests         \* the requests being served, each with what it has read

ordersVars == <<mos, wos>>

stockVars == <<products, stock_moves>>

bomVars == <<boms, bom_components, bom_operations>>

helperVars == <<call, result>>

vars == <<autoflush, today, last, mos, wos, products, stock_moves,
          boms, bom_components, bom_operations, call, result, requests>>

----------------------------------------------------------------------------
(* Bounds of the model. *)

MaxMO == 1
MaxWO == 2

----------------------------------------------------------------------------
(* Values shared by the handlers. *)

\* Python's None / SQL NULL.
None == "None"

\* A field left out of a pydantic update body (dict(exclude_unset=True)).
Unset == "Unset"

\* NULL in a DateTime column (days are counted from 1), and a date or id
\* field left out of an update body.
NullDate == 0

UnsetRef == -1

\* The rows of table order_statuses; a status_id is identified with the name
\* of its row.
StatusNames == {"Started", "Completed", "Canceled", "Done"}

\* The acting users and their roles.
Users == {"admin", "op1"}

RoleName(u) == IF u = "admin" THEN "Admin" ELSE "Operator"

\* Users a work order may be assigned to.
Assignees == {None, "op1"}

----------------------------------------------------------------------------
(* Order numbers: "{PREFIX}-{YYYYMMDD}-{NNNN}", kept as the prefix, the    *)
(* date and the string of decimal digits that ends it.                     *)

RECURSIVE Digits(_)
Digits(n) == IF n < 10 THEN <<n>> ELSE Append(Digits(n \div 10), n % 10)

RECURSIVE ZeroPad(_, _)
ZeroPad(ds, width) == IF Len(ds) >= width THEN ds ELSE ZeroPad(<<0>> \o ds, width)

\* f"{n:04d}"
Format04d(n) == ZeroPad(Digits(n), 4)

\* int(s)
RECURSIVE ParseInt(_)
ParseInt(ds) ==
    IF ds = <<>> THEN 0
    ELSE 10 * ParseInt(SubSeq(ds, 1, Len(ds) - 1)) + ds[Len(ds)]

\* String comparison of two digit strings (the ORDER BY of a text column).
StrLess(a, b) ==
    \/ \E i \in 1..Len(a) :
          /\ i <= Len(b)
          /\ \A j \in 1..(i - 1) : a[j] = b[j]
          /\ a[i] < b[i]
    \/ /\ Len(a) < Len(b)
       /\ \A j \in 1..Len(a) : a[j] = b[j]

\* The filter that leaves the deleted rows out.
ScopeRowsLive(rows, prefix, date) ==
    {i \in DOMAIN rows :
        /\ rows[i].order_number.prefix = prefix
        /\ rows[i].order_number.date = date
        /\ rows[i].deleted_at = NullDate}

\* The filter without the date.
ScopeRowsAnyDate(rows, prefix, date) ==
    {i \in DOMAIN rows : rows[i].order_number.prefix = prefix}

\* filter(order_number.like(f"{prefix}-{today}-%")), soft-deleted rows included.
ScopeRows(rows, prefix, date) ==
    {i \in DOMAIN rows :
        /\ rows[i].order_number.prefix = prefix
        /\ rows[i].order_number.date = date}

\* The row of scope among rows lo..hi whose counter is the greatest as a
\* string, 0 when none of them is in scope.
RECURSIVE LastAmong(_, _, _, _)
LastAmong(rows, scope, lo, hi) ==
    IF lo = hi
    THEN IF lo \in scope THEN lo ELSE 0
    ELSE LET mid == (lo + hi) \div 2
             lower == LastAmong(rows, scope, lo, mid)
             upper == LastAmong(rows, scope, mid + 1, hi)
         IN IF lower = 0 THEN upper
            ELSE IF upper = 0 THEN lower
            ELSE IF StrLess(rows[lower].order_number.counter,
                            rows[upper].order_number.counter)
            THEN upper ELSE lower

\* .order_by(order_number.desc()).first()
LastOrder(rows, prefix, date) ==
    LastAmong(rows, ScopeRows(rows, prefix, date), 1, Len(rows))

NextOrderNumber(rows, prefix, date) ==
    [prefix  |-> prefix,
     date    |-> date,
     counter |->
        IF ScopeRows(rows, prefix, date) # {}
        THEN Format04d(ParseInt(rows[LastOrder(rows, prefix, date)].order_number.counter) + 1)
        ELSE Format04d(1)]

----------------------------------------------------------------------------
(* Manufacturing orders. *)

Response(op, code, id, status) ==
    [op |-> op, code |-> code, id |-> id, status |-> status]

\* query(...).filter(id == x, deleted_at == None).first()
LiveRow(rows, id) == id \in DOMAIN rows /\ rows[id].deleted_at = NullDate

\* for field, value in update.dict(exclude_unset=True).items(): setattr(...)
SetField(old, new) == IF new = Unset THEN old ELSE new

SetRef(old, new) == IF new = UnsetRef THEN old ELSE new

\* A column without the unique constraint.
NumberNeverTaken(rows, n) == FALSE

\* order_number = Column(String(100), unique=True): the INSERT that db.commit()
\* sends fails when a row of the table, deleted or not, holds the number.
NumberTaken(rows, n) == \E i \in DOMAIN rows : rows[i].order_number = n

CreateManufacturingOrder(s, quantity) ==
    /\ LET n == NextOrderNumber(mos, "MO", today) IN
         IF NumberTaken(mos, n)
         THEN /\ last' = Response("create_manufacturing_order", 500, 0, None)
              /\ UNCHANGED mos
         ELSE /\ mos' = Append(mos,
                           [order_number    |-> n,
                            quantity        |-> quantity,
                            status_id       |-> s,
                            actual_end_date |-> NullDate,
                            deleted_at      |-> NullDate])
              /\ last' = Response("create_manufacturing_order", 200, 0, None)
    /\ UNCHANGED <<autoflush, today, wos, stockVars, bomVars, helperVars, requests>>

UpdateManufacturingOrder(id, s, endDate, quantity) ==
    /\ IF ~LiveRow(mos, id)
       THEN /\ last' = Response("update_manufacturing_order", 404, 0, None)
            /\ UNCHANGED mos
       ELSE /\ mos' = [mos EXCEPT
                          ![id].status_id = SetField(@, s),
                          ![id].actual_end_date = SetRef(@, endDate),
                          ![id].quantity = SetRef(@, quantity)]
            /\ last' = Response("update_manufacturing_order", 200, 0, None)
    /\ UNCHANGED <<autoflush, today, wos, stockVars, bomVars, helperVars, requests>>

DeleteManufacturingOrder(id) ==
    /\ IF ~LiveRow(mos, id)
       THEN /\ last' = Response("delete_manufacturing_order", 404, 0, None)
            /\ UNCHANGED mos
       ELSE /\ mos' = [mos EXCEPT ![id].deleted_at = today]
            /\ last' = Response("delete_manufacturing_order", 204, 0, None)
    /\ UNCHANGED <<autoflush, today, wos, stockVars, bomVars, helperVars, requests>>

----------------------------------------------------------------------------
(* Work orders. *)

CreateWorkOrder(m, s, a) ==
    /\ m \in DOMAIN mos
    /\ LET n == NextOrderNumber(wos, "WO", today) IN
         IF NumberTaken(wos, n)
         THEN /\ last' = Response("create_work_order", 500, 0, None)
              /\ UNCHANGED wos
         ELSE /\ wos' = Append(wos,
                           [order_number           |-> n,
                            manufacturing_order_id |-> m,
                            status_id              |-> s,
                            assigned_to_id         |-> a,
                            deleted_at             |-> NullDate])
              /\ last' = Response("create_work_order", 200, 0, None)
    /\ UNCHANGED <<autoflush, today, mos, stockVars, bomVars, helperVars, requests>>

UpdateWorkOrder(id, m, s, a) ==
    /\ m \in DOMAIN mos \cup {UnsetRef}
    /\ IF ~LiveRow(wos, id)
       THEN /\ last' = Response("update_work_order", 404, 0, None)
            /\ UNCHANGED wos
       ELSE /\ wos' = [wos EXCEPT
                          ![id].manufacturing_order_id = SetRef(@, m),
                          ![id].status_id = SetField(@, s),
                          ![id].assigned_to_id = SetField(@, a)]
            /\ last' = Response("update_work_order", 200, 0, None)
    /\ UNCHANGED <<autoflush, today, mos, stockVars, bomVars, helperVars, requests>>

\* The status the count query of the cascade reads for row i while work order
\* id holds the not yet committed status s: the query runs in the database,
\* which has the new status only if the session flushed before the query.
QueriedStatus(i, id, s) ==
    IF i = id /\ autoflush THEN s ELSE wos[i].status_id

\* A count that looks at the updated work order alone.
PendingWorkOrdersSelfOnly(m, id, s) ==
    Cardinality({i \in {id} : QueriedStatus(i, id, s) # "Done"})

\* query(WorkOrder).filter(manufacturing_order_id == m, status_id != done,
\*                         deleted_at == None).count()
PendingWorkOrders(m, id, s) ==
    Cardinality({i \in DOMAIN wos :
        /\ wos[i].manufacturing_order_id = m
        /\ QueriedStatus(i, id, s) # "Done"
        /\ wos[i].deleted_at = NullDate})

\* Whether the cascade sets the manufacturing order to Done.
CascadeFires(id, s) ==
    /\ "Done" \in StatusNames
    /\ s = "Done"
    /\ wos[id].manufacturing_order_id \in DOMAIN mos
    /\ PendingWorkOrders(wos[id].manufacturing_order_id, id, s) = 0

\* A check that lets any user update a work order nobody is assigned to.
NotAuthorizedWhenAssignedElsewhere(work_order, u) ==
    work_order.assigned_to_id \notin {None, u} /\ RoleName(u) # "Admin"

\* work_order.assigned_to_id != current_user.id
\*     and current_user.role.name != "Admin"
NotAuthorized(work_order, u) ==
    work_order.assigned_to_id # u /\ RoleName(u) # "Admin"

UpdateWorkOrderStatus(u, id, s) ==
    /\ IF ~LiveRow(wos, id)
       THEN /\ last' = Response("update_work_order_status", 404, id, s)
            /\ UNCHANGED <<wos, mos>>
       ELSE IF NotAuthorized(wos[id], u)
       THEN /\ last' = Response("update_work_order_status", 403, id, s)
            /\ UNCHANGED <<wos, mos>>
       ELSE /\ wos' = [wos EXCEPT ![id].status_id = s]
            /\ mos' = IF CascadeFires(id, s)
                      THEN [mos EXCEPT
                              ![wos[id].manufacturing_order_id].status_id = "Done",
                              ![wos[id].manufacturing_order_id].actual_end_date = today]
                      ELSE mos
            /\ last' = Response("update_work_order_status", 200, id, s)
    /\ UNCHANGED <<autoflush, today, stockVars, bomVars, helperVars, requests>>

DeleteWorkOrder(id) ==
    /\ IF ~LiveRow(wos, id)
       THEN /\ last' = Response("delete_work_order", 404, 0, None)
            /\ UNCHANGED wos
       ELSE /\ wos' = [wos EXCEPT ![id].deleted_at = today]
            /\ last' = Response("delete_work_order", 204, 0, None)
    /\ UNCHANGED <<autoflush, today, mos, stockVars, bomVars, helperVars, requests>>

----------------------------------------------------------------------------
(* The order lifecycle as a state machine. *)

InitOrders ==
    /\ autoflush \in BOOLEAN
    /\ today = 1
    /\ mos = <<>>
    /\ wos = <<>>
    /\ last = Response("none", 0, 0, None)
    /\ products = <<>>
    /\ stock_moves = <<>>
    /\ boms = <<>>
    /\ bom_components = <<>>
    /\ bom_operations = <<>>
    /\ call = <<>>
    /\ result = <<>>
    /\ requests = <<>>

NextOrders ==
    \/ \E s \in StatusNames : Len(mos) < MaxMO /\ CreateManufacturingOrder(s, 1)
    \/ \E id \in 1..MaxMO, s \in StatusNames \cup {Unset},
          e \in {UnsetRef, NullDate, today} : UpdateManufacturingOrder(id, s, e, UnsetRef)
    \/ \E id \in 1..MaxMO : DeleteManufacturingOrder(id)
    \/ \E m \in 1..MaxMO, s \in StatusNames, a \in Assignees :
          Len(wos) < MaxWO /\ CreateWorkOrder(m, s, a)
    \/ \E id \in 1..MaxWO, m \in (1..MaxMO) \cup {UnsetRef},
          s \in StatusNames \cup {Unset}, a \in Assignees \cup {Unset} :
          UpdateWorkOrder(id, m, s, a)
    \/ \E u \in Users, id \in 1..MaxWO, s \in StatusNames :
          UpdateWorkOrderStatus(u, id, s)
    \/ \E id \in 1..MaxWO : DeleteWorkOrder(id)

SpecOrders == InitOrders /\ [][NextOrders]_vars

----------------------------------------------------------------------------
(* Properties of the order lifecycle. *)

\* The non-retired work orders of manufacturing order m in table rows.
LiveWorkOrders(rows, m) ==
    {i \in DOMAIN rows :
        rows[i].manufacturing_order_id = m /\ rows[i].deleted_at = NullDate}

\* C1: in every reachable state a manufacturing order that has non-retired
\* work orders has status Done if and only if every one of them has status
\* Done.
C1_DoneIffAllWorkOrdersDone ==
    \A m \in DOMAIN mos :
        LiveWorkOrders(wos, m) # {} =>
            (mos[m].status_id = "Done"
                <=> \A i \in LiveWorkOrders(wos, m) : wos[i].status_id = "Done")

\* C2: once a work order's status is Completed or Canceled, no request
\* changes it.
C2_TerminalStatusAbsorbing ==
    [][\A i \in DOMAIN wos :
          wos[i].status_id \in {"Completed", "Canceled"}
              => wos'[i].status_id = wos[i].status_id]_vars

\* The last request was a successful status update of a work order to the
\* done status.
LastSetDone ==
    /\ last.op = "update_work_order_status"
    /\ last.code = 200
    /\ last.status = "Done"

\* C4: right after a status update has put the last pending work order of a
\* manufacturing order into the done status (all its non-retired work orders
\* are now done), the manufacturing order is Done and has an actual_end_date.
C4_CascadingCompletion ==
    LastSetDone =>
        LET m == wos[last.id].manufacturing_order_id IN
            (\A i \in LiveWorkOrders(wos, m) : wos[i].status_id = "Done")
                => /\ mos[m].status_id = "Done"
                   /\ mos[m].actual_end_date # NullDate

\* C5: a work order status update leaves every manufacturing order as it was
\* when the requested status is not the done status, and when after the
\* update some non-retired work order of the owning manufacturing order is
\* not done (a refused update changes nothing either).
C5_NoCascadeWhilePending ==
    [][(/\ last'.op = "update_work_order_status"
        /\ \/ last'.code # 200
           \/ last'.status # "Done"
           \/ \E i \in LiveWorkOrders(wos', wos'[last'.id].manufacturing_order_id) :
                 wos'[i].status_id # "Done")
          => mos' = mos]_vars

\* A work order was set to the done status while a non-retired sibling is
\* still pending, and the manufacturing order is not Done.
C5_Witness ==
    /\ LastSetDone
    /\ LET m == wos[last.id].manufacturing_order_id IN
          /\ \E i \in LiveWorkOrders(wos, m) : wos[i].status_id # "Done"
          /\ mos[m].status_id # "Done"
          /\ mos[m].actual_end_date = NullDate

----------------------------------------------------------------------------
(* Stock ledger: products and stock moves.  unit_cost columns are          *)
(* Numeric(10, 2) and are counted in cents; quantities are integers.       *)

MaxMoves == 2

\* The rows of table stock_move_types and of table locations.
MoveTypeNames == {"Receipt", "Issue", "Adjustment"}

LocationIds == {"WH1"}

\* Values a request may carry.
Skus == {"SKU-A"}

ProductIds == 1..Cardinality(Skus)

InitialStocks == {0, 20, 100}

InitialCosts == {1000}

UnitCosts == {1000, 1600}

Quantities == {-30, 30, 50}

StockResponse(op, code, detail, p, mt, q, c) ==
    [op |-> op, code |-> code, detail |-> detail,
     product_id |-> p, move_type |-> mt, quantity |-> q, unit_cost |-> c]

\* The 400 of a refused Issue: its detail is written from the name and the
\* stock of the product, the values kept in field interpolated.
InsufficientStockResponse(p, mt, q, c, product) ==
    [op |-> "create_stock_move", code |-> 400, detail |-> "Insufficient stock",
     product_id |-> p, move_type |-> mt, quantity |-> q, unit_cost |-> c,
     interpolated |-> [name |-> product.sku,
                       Available |-> product.stock_quantity]]

\* The quotient n / d (d > 0) as a Numeric(10, 2) column stores it: rounded
\* to the nearest cent, halves away from zero.
RoundDiv(n, d) ==
    IF n >= 0 THEN (2 * n + d) \div (2 * d)
    ELSE -((2 * (-n) + d) \div (2 * d))

\* The average that weights the old unit cost by the stock after the move.
ReceiptUnitCostFromNewStock(newQuantity, q, unitCost, c) ==
    RoundDiv(newQuantity * unitCost + q * c, newQuantity)

\* ((stock_quantity - quantity) * unit_cost + quantity * move.unit_cost)
\*     / stock_quantity, stock_quantity being the stock after the receipt.
ReceiptUnitCost(newQuantity, q, unitCost, c) ==
    RoundDiv((newQuantity - q) * unitCost + q * c, newQuantity)

InsufficientStockSwapped(stock, q) == q < stock

\* if product.stock_quantity < stock_move_data.quantity: raise ...
InsufficientStock(stock, q) == stock < q

\* An Adjustment that stops at zero and takes the unit cost of the move.
ApplyMoveRevaluingAdjustment(product, mt, q, c) ==
    IF mt = "Receipt"
    THEN [product EXCEPT
            !.stock_quantity = @ + q,
            !.unit_cost = IF product.stock_quantity + q > 0
                          THEN ReceiptUnitCost(product.stock_quantity + q, q, @, c)
                          ELSE @]
    ELSE IF mt = "Issue"
    THEN [product EXCEPT !.stock_quantity = @ - q]
    ELSE IF mt = "Adjustment"
    THEN [product EXCEPT
            !.stock_quantity = IF @ + q < 0 THEN 0 ELSE @ + q,
            !.unit_cost = c]
    ELSE product

\* The product after a move of type mt, quantity q and unit cost c.
ApplyMove(product, mt, q, c) ==
    IF mt = "Receipt"
    THEN [product EXCEPT
            !.stock_quantity = @ + q,
            !.unit_cost = IF product.stock_quantity + q > 0
                          THEN ReceiptUnitCost(product.stock_quantity + q, q, @, c)
                          ELSE @]
    ELSE IF mt = "Issue"
    THEN [product EXCEPT !.stock_quantity = @ - q]
    ELSE IF mt = "Adjustment"
    THEN [product EXCEPT !.stock_quantity = @ + q]
    ELSE product

CreateProduct(sku, cost, stock) ==
    /\ IF \E i \in DOMAIN products : products[i].sku = sku
       THEN /\ last' = StockResponse("create_product", 400, "SKU already exists",
                                     0, None, 0, 0)
            /\ UNCHANGED products
       ELSE /\ products' = Append(products,
                              [sku            |-> sku,
                               unit_cost      |-> cost,
                               stock_quantity |-> stock,
                               deleted_at     |-> NullDate])
            /\ last' = StockResponse("create_product", 200, None, 0, None, 0, 0)
    /\ UNCHANGED <<autoflush, today, stock_moves, ordersVars, bomVars, helperVars, requests>>

\* A session that drops the row it was given.
NotAdded(rows, row) == rows

\* db.add(row), and the INSERT of the row at db.commit().
Added(rows, row) == Append(rows, row)

CreateStockMove(p, mt, loc, q, c) ==
    /\ IF ~LiveRow(products, p)
       THEN /\ last' = StockResponse("create_stock_move", 404, "Product not found",
                                     p, None, 0, 0)
            /\ UNCHANGED stockVars
       ELSE IF mt \notin MoveTypeNames
       THEN /\ last' = StockResponse("create_stock_move", 404,
                                     "Stock move type not found", p, mt, 0, 0)
            /\ UNCHANGED stockVars
       ELSE IF loc \notin LocationIds
       THEN /\ last' = StockResponse("create_stock_move", 404, "Location not found",
                                     p, mt, 0, 0)
            /\ UNCHANGED stockVars
       ELSE IF mt = "Issue" /\ InsufficientStock(products[p].stock_quantity, q)
       THEN /\ last' = InsufficientStockResponse(p, mt, q, c, products[p])
            /\ UNCHANGED stockVars
       ELSE /\ Len(stock_moves) < MaxMoves
            /\ stock_moves' = Added(stock_moves,
                                 [product_id |-> p, move_type |-> mt, quantity |-> q,
                                  unit_cost |-> c, location_id |-> loc,
                                  notes |-> None, deleted_at |-> NullDate])
            /\ products' = [products EXCEPT ![p] = ApplyMove(@, mt, q, c)]
            /\ last' = StockResponse("create_stock_move", 200, None, p, mt, q, c)
    /\ UNCHANGED <<autoflush, today, ordersVars, bomVars, helperVars, requests>>

InitStock ==
    /\ autoflush \in BOOLEAN
    /\ today = 1
    /\ last = StockResponse("none", 0, None, 0, None, 0, 0)
    /\ mos = <<>>
    /\ wos = <<>>
    /\ products = <<>>
    /\ stock_moves = <<>>
    /\ boms = <<>>
    /\ bom_components = <<>>
    /\ bom_operations = <<>>
    /\ call = <<>>
    /\ result = <<>>
    /\ requests = <<>>

NextStock ==
    \/ \E sku \in Skus, c \in InitialCosts, s \in InitialStocks :
          CreateProduct(sku, c, s)
    \/ \E p \in ProductIds, mt \in MoveTypeNames \cup {"NoSuchType"},
          loc \in LocationIds \cup {"NoSuchLocation"}, q \in Quantities,
          c \in UnitCosts : CreateStockMove(p, mt, loc, q, c)

SpecStock == InitStock /\ [][NextStock]_vars

----------------------------------------------------------------------------
(* Properties of the stock ledger. *)

\* The request just served was create_stock_move for a move of type mt on
\* an existing product, type and location.
MoveRequested(mt) ==
    /\ last'.op = "create_stock_move"
    /\ last'.move_type = mt
    /\ last'.code \in {200, 400}

\* The last request was a move of type mt that was applied.
MoveApplied(mt) ==
    /\ last.op = "create_stock_move"
    /\ last.move_type = mt
    /\ last.code = 200

Min(a, b) == IF a <= b THEN a ELSE b

Max(a, b) == IF a >= b THEN a ELSE b

\* C6: an Issue of more than the product's stock fails with the
\* insufficient-stock error and leaves the product's stock_quantity and
\* unit_cost (and the ledger) as they were.
C6_IssueBeyondStockFails ==
    [][(/\ MoveRequested("Issue")
        /\ last'.quantity > products[last'.product_id].stock_quantity)
          => /\ last'.code = 400
             /\ last'.detail = "Insufficient stock"
             /\ products' = products
             /\ stock_moves' = stock_moves]_vars

\* An Issue of 30 was refused on a product holding 20.
C6_Witness ==
    /\ last.op = "create_stock_move"
    /\ last.move_type = "Issue"
    /\ last.code = 400
    /\ last.quantity = 30
    /\ products[last.product_id].stock_quantity = 20
    /\ products[last.product_id].unit_cost = 1000

\* C7: right after an Issue has been applied the product's stock_quantity
\* is not negative, whatever moves came before.
C7_NoNegativeStockAfterIssue ==
    MoveApplied("Issue") => products[last.product_id].stock_quantity >= 0

\* An Issue was applied after an Adjustment.
C7_Witness ==
    /\ MoveApplied("Issue")
    /\ Len(stock_moves) >= 2
    /\ \E i \in DOMAIN stock_moves : stock_moves[i].move_type = "Adjustment"

ReceiptsPositive(moves) ==
    \A i \in DOMAIN moves :
        moves[i].move_type = "Receipt" => moves[i].quantity > 0

----------------------------------------------------------------------------
(* Bills of materials.  Component quantities are Numeric(10, 3) and are    *)
(* counted in thousandths, costs are Numeric(10, 2) and counted in cents,  *)
(* durations are whole minutes.                                            *)

MaxBoms == 1

MaxComponents == 2

MaxOperations == 1

\* The rows of table work_centers.
WorkCenterIds == {"WC1"}

\* Values a request may carry.
ComponentSkus == {"SKU-A", "SKU-B"}

Versions == {"v1", "v2"}

TotalCosts == {0, 5300}

ComponentQuantities == {1000, 2000}

ComponentCosts == {500}

Durations == {30, 60}

SetupTimes == {10}

CostsPerHour == {6000}

\* The query without the deleted_at filter.
ChildrenWithDeleted(rows, bom_id) ==
    SelectSeq(rows, LAMBDA r : r.bom_id = bom_id)

\* query(BOMComponent).filter(bom_id == bom_id, deleted_at == None).all(),
\* and the same for BOMOperation.
Children(rows, bom_id) ==
    SelectSeq(rows, LAMBDA r : r.bom_id = bom_id /\ r.deleted_at = NullDate)

\* The rows a query sees while the session holds the rows of memory and the
\* database holds those of stored: with autoflush it sees the session's
\* rows; without, it selects on the stored columns and yields the objects
\* of the session, and a row only added to the session is not found.
Queried(stored, memory) ==
    IF autoflush
    THEN memory
    ELSE [i \in DOMAIN stored |->
            [memory[i] EXCEPT !.deleted_at = stored[i].deleted_at]]

RECURSIVE TotalQuantity(_)
TotalQuantity(components) ==
    IF components = <<>> THEN 0
    ELSE Head(components).quantity + TotalQuantity(Tail(components))

\* Every quantity priced at the unit cost of the first component.
MaterialCostAtFirstPrice(components) ==
    IF components = <<>> THEN 0
    ELSE Head(components).unit_cost * TotalQuantity(components)

\* sum(component.quantity * component.unit_cost for component in components),
\* in thousandths of a cent.
RECURSIVE MaterialCost(_)
MaterialCost(components) ==
    IF components = <<>> THEN 0
    ELSE Head(components).quantity * Head(components).unit_cost
         + MaterialCost(Tail(components))

\* sum((operation.duration + operation.setup_time) / 60
\*     * operation.cost_per_hour for operation in operations),
\* in sixtieths of a cent.
RECURSIVE LaborCost(_)
LaborCost(operations) ==
    IF operations = <<>> THEN 0
    ELSE (Head(operations).duration + Head(operations).setup_time)
             * Head(operations).cost_per_hour
         + LaborCost(Tail(operations))

\* material_cost + labor_cost, in six-thousandths of a cent.
CalculateBomCostDetailed(components, operations, bom_id) ==
    LET cs == Children(components, bom_id)
        os == Children(operations, bom_id)
    IN [material_cost   |-> MaterialCost(cs),
        labor_cost      |-> LaborCost(os),
        total_cost      |-> 6 * MaterialCost(cs) + 100 * LaborCost(os),
        component_count |-> Len(cs),
        operation_count |-> Len(os)]

CalculateBomCost(components, operations, bom_id) ==
    CalculateBomCostDetailed(components, operations, bom_id).total_cost

\* bom.total_cost = calculate_bom_cost(db, bom_id), as the Numeric(10, 2)
\* column stores it.
Recalculated(rows, stored, memory, bom_id) ==
    IF bom_id \in DOMAIN rows
    THEN [rows EXCEPT ![bom_id].total_cost =
            RoundDiv(CalculateBomCost(Queried(stored, memory),
                                      bom_operations, bom_id), 6000)]
    ELSE rows

CreateBom(p, v, cost) ==
    /\ IF ~LiveRow(products, p)
       THEN /\ last' = Response("create_bom", 404, 0, None)
            /\ UNCHANGED boms
       ELSE IF \E i \in DOMAIN boms :
                 /\ boms[i].product_id = p
                 /\ boms[i].version = v
                 /\ boms[i].deleted_at = NullDate
       THEN /\ last' = Response("create_bom", 400, 0, None)
            /\ UNCHANGED boms
       ELSE /\ Len(boms) < MaxBoms
            /\ boms' = Append(boms,
                          [product_id |-> p,
                           version    |-> v,
                           total_cost |-> cost,
                           deleted_at |-> NullDate])
            /\ last' = Response("create_bom", 200, Len(boms) + 1, None)
    /\ UNCHANGED <<autoflush, today, bom_components, bom_operations,
                   ordersVars, stockVars, helperVars, requests>>

UpdateBom(id, v, cost) ==
    /\ IF ~LiveRow(boms, id)
       THEN /\ last' = Response("update_bom", 404, id, None)
            /\ UNCHANGED boms
       ELSE IF /\ v # Unset
               /\ v # boms[id].version
               /\ \E i \in DOMAIN boms :
                     /\ boms[i].product_id = boms[id].product_id
                     /\ boms[i].version = v
                     /\ i # id
                     /\ boms[i].deleted_at = NullDate
       THEN /\ last' = Response("update_bom", 400, id, None)
            /\ UNCHANGED boms
       ELSE /\ boms' = [boms EXCEPT ![id].version = SetField(@, v),
                                    ![id].total_cost = SetRef(@, cost)]
            /\ last' = Response("update_bom", 200, id, None)
    /\ UNCHANGED <<autoflush, today, bom_components, bom_operations,
                   ordersVars, stockVars, helperVars, requests>>

CreateBomComponent(b, p, q, c) ==
    /\ IF ~LiveRow(boms, b)
       THEN /\ last' = Response("create_bom_component", 404, b, None)
            /\ UNCHANGED <<boms, bom_components>>
       ELSE IF ~LiveRow(products, p)
       THEN /\ last' = Response("create_bom_component", 404, b, None)
            /\ UNCHANGED <<boms, bom_components>>
       ELSE IF \E i \in DOMAIN bom_components :
                 /\ bom_components[i].bom_id = b
                 /\ bom_components[i].product_id = p
                 /\ bom_components[i].deleted_at = NullDate
       THEN /\ last' = Response("create_bom_component", 400, b, None)
            /\ UNCHANGED <<boms, bom_components>>
       ELSE /\ Len(bom_components) < MaxComponents
            /\ bom_components' = Append(bom_components,
                                    [bom_id     |-> b,
                                     product_id |-> p,
                                     quantity   |-> q,
                                     unit_cost  |-> c,
                                     deleted_at |-> NullDate])
            /\ boms' = Recalculated(boms, bom_components, bom_components', b)
            /\ last' = Response("create_bom_component", 200, b, None)
    /\ UNCHANGED <<autoflush, today, bom_operations, ordersVars, stockVars,
                   helperVars, requests>>

\* query(BOMComponent).filter(id == id, bom_id == bom_id,
\*                            deleted_at == None).first(), likewise for
\* BOMOperation.
LiveChild(rows, b, id) == LiveRow(rows, id) /\ rows[id].bom_id = b

UpdateBomComponent(b, id, q, c) ==
    /\ IF ~LiveChild(bom_components, b, id)
       THEN /\ last' = Response("update_bom_component", 404, b, None)
            /\ UNCHANGED <<boms, bom_components>>
       ELSE /\ bom_components' = [bom_components EXCEPT
                                     ![id].quantity = SetRef(@, q),
                                     ![id].unit_cost = SetRef(@, c)]
            /\ boms' = Recalculated(boms, bom_components, bom_components', b)
            /\ last' = Response("update_bom_component", 200, b, None)
    /\ UNCHANGED <<autoflush, today, bom_operations, ordersVars, stockVars,
                   helperVars, requests>>

DeleteBomComponent(b, id) ==
    /\ IF ~LiveChild(bom_components, b, id)
       THEN /\ last' = Response("delete_bom_component", 404, b, None)
            /\ UNCHANGED <<boms, bom_components>>
       ELSE /\ bom_components' = [bom_components EXCEPT ![id].deleted_at = today]
            /\ boms' = Recalculated(boms, bom_components, bom_components', b)
            /\ last' = Response("delete_bom_component", 200, b, None)
    /\ UNCHANGED <<autoflush, today, bom_operations, ordersVars, stockVars,
                   helperVars, requests>>

CreateBomOperation(b, wc, d, s, r) ==
    /\ IF ~LiveRow(boms, b)
       THEN /\ last' = Response("create_bom_operation", 404, b, None)
            /\ UNCHANGED bom_operations
       ELSE IF wc \notin WorkCenterIds
       THEN /\ last' = Response("create_bom_operation", 404, b, None)
            /\ UNCHANGED bom_operations
       ELSE /\ Len(bom_operations) < MaxOperations
            /\ bom_operations' = Append(bom_operations,
                                    [bom_id        |-> b,
                                     duration      |-> d,
                                     setup_time    |-> s,
                                     cost_per_hour |-> r,
                                     deleted_at    |-> NullDate])
            /\ last' = Response("create_bom_operation", 200, b, None)
    /\ UNCHANGED <<autoflush, today, boms, bom_components, ordersVars,
                   stockVars, helperVars, requests>>

UpdateBomOperation(b, id, d) ==
    /\ IF ~LiveChild(bom_operations, b, id)
       THEN /\ last' = Response("update_bom_operation", 404, b, None)
            /\ UNCHANGED bom_operations
       ELSE /\ bom_operations' = [bom_operations EXCEPT
                                     ![id].duration = SetRef(@, d)]
            /\ last' = Response("update_bom_operation", 200, b, None)
    /\ UNCHANGED <<autoflush, today, boms, bom_components, ordersVars,
                   stockVars, helperVars, requests>>

DeleteBomOperation(b, id) ==
    /\ IF ~LiveChild(bom_operations, b, id)
       THEN /\ last' = Response("delete_bom_operation", 404, b, None)
            /\ UNCHANGED bom_operations
       ELSE /\ bom_operations' = [bom_operations EXCEPT ![id].deleted_at = today]
            /\ last' = Response("delete_bom_operation", 200, b, None)
    /\ UNCHANGED <<autoflush, today, boms, bom_components, ordersVars,
                   stockVars, helperVars, requests>>

InitBom ==
    /\ autoflush \in BOOLEAN
    /\ today = 1
    /\ last = Response("none", 0, 0, None)
    /\ mos = <<>>
    /\ wos = <<>>
    /\ products = <<>>
    /\ stock_moves = <<>>
    /\ boms = <<>>
    /\ bom_components = <<>>
    /\ bom_operations = <<>>
    /\ call = <<>>
    /\ result = <<>>
    /\ requests = <<>>

NextBom ==
    \/ \E sku \in ComponentSkus : CreateProduct(sku, 0, 0)
    \/ \E p \in 1..Cardinality(ComponentSkus), v \in Versions, cost \in TotalCosts :
          CreateBom(p, v, cost)
    \/ \E id \in 1..MaxBoms, v \in Versions \cup {Unset},
          cost \in TotalCosts \cup {UnsetRef} :
          UpdateBom(id, v, cost)
    \/ \E b \in 1..MaxBoms, p \in 1..Cardinality(ComponentSkus),
          q \in ComponentQuantities, c \in ComponentCosts :
          CreateBomComponent(b, p, q, c)
    \/ \E b \in 1..MaxBoms, id \in 1..MaxComponents,
          q \in ComponentQuantities \cup {UnsetRef},
          c \in ComponentCosts \cup {UnsetRef} :
          UpdateBomComponent(b, id, q, c)
    \/ \E b \in 1..MaxBoms, id \in 1..MaxComponents : DeleteBomComponent(b, id)
    \/ \E b \in 1..MaxBoms, wc \in WorkCenterIds \cup {None},
          d \in Durations, s \in SetupTimes, r \in CostsPerHour :
          CreateBomOperation(b, wc, d, s, r)
    \/ \E b \in 1..MaxBoms, id \in 1..MaxOperations,
          d \in Durations \cup {UnsetRef} :
          UpdateBomOperation(b, id, d)
    \/ \E b \in 1..MaxBoms, id \in 1..MaxOperations : DeleteBomOperation(b, id)

SpecBom == InitBom /\ [][NextBom]_vars

----------------------------------------------------------------------------
(* Properties of the bills of materials. *)

\* C10: in every state the total_cost of every bill of materials equals the
\* material cost plus the labor cost computed in full over its components
\* and operations that are not deleted.
C10_TotalCostIsRollUp ==
    \A b \in DOMAIN boms :
        boms[b].deleted_at = NullDate =>
            boms[b].total_cost =
                RoundDiv(CalculateBomCost(bom_components, bom_operations, b), 6000)

----------------------------------------------------------------------------
(* Validation helpers of app/utils/exceptions.py. *)

\* Status names a caller may pass.
StatusArguments ==
    {"Ready", "Started", "Paused", "Completed", "Canceled",
     "Done", "Planned", "In Progress", "ready", ""}

\* A call that returned normally.
Returned == [raised |-> FALSE]

\* BusinessLogicError(message, error_code, details), raised.
BusinessLogicError(message, error_code, details) ==
    [raised     |-> TRUE,
     type       |-> "BusinessLogicError",
     message    |-> message,
     error_code |-> IF error_code \in {None, ""}
                    THEN "BUSINESS_LOGIC_ERROR" ELSE error_code,
     details    |-> details]

\* The table with a completed work order allowed to start again.
ValidTransitionsReopening ==
    [Ready     |-> <<"Started", "Canceled">>,
     Started   |-> <<"Paused", "Completed", "Canceled">>,
     Paused    |-> <<"Started", "Canceled">>,
     Completed |-> <<"Started">>,
     Canceled  |-> <<>>]

\* valid_transitions
ValidTransitions ==
    [Ready     |-> <<"Started", "Canceled">>,
     Started   |-> <<"Paused", "Completed", "Canceled">>,
     Paused    |-> <<"Started", "Canceled">>,
     Completed |-> <<>>,
     Canceled  |-> <<>>]

\* d.get(key, default)
Get(d, key, default) == IF key \in DOMAIN d THEN d[key] ELSE default

\* x in list
In(x, list) == \E i \in DOMAIN list : list[i] = x

ValidateWorkOrderStatusTransition(current_status, new_status) ==
    IF ~In(new_status, Get(ValidTransitions, current_status, <<>>))
    THEN BusinessLogicError(
             <<"Cannot transition work order from ", current_status,
               " to ", new_status>>,
             "INVALID_STATUS_TRANSITION",
             [current_status |-> current_status, new_status |-> new_status])
    ELSE Returned

\* The pending call runs to its end.
RunValidateWorkOrderStatusTransition ==
    /\ call # <<>>
    /\ call[1] = "validate_work_order_status_transition"
    /\ result = <<>>
    /\ result' = ValidateWorkOrderStatusTransition(call[2], call[3])
    /\ UNCHANGED <<autoflush, today, last, call, ordersVars, stockVars, bomVars,
                   requests>>

InitTransition ==
    /\ autoflush = FALSE
    /\ today = 1
    /\ last = Response("none", 0, 0, None)
    /\ mos = <<>>
    /\ wos = <<>>
    /\ products = <<>>
    /\ stock_moves = <<>>
    /\ boms = <<>>
    /\ bom_components = <<>>
    /\ bom_operations = <<>>
    /\ call \in {<<"validate_work_order_status_transition", c, n>> :
                    c \in StatusArguments, n \in StatusArguments}
    /\ result = <<>>
    /\ requests = <<>>

NextTransition == RunValidateWorkOrderStatusTransition

SpecTransition == InitTransition /\ [][NextTransition]_vars

----------------------------------------------------------------------------
(* Properties of the validation helpers. *)

\* C3: validate_work_order_status_transition returns normally exactly for
\* Ready->Started, Ready->Canceled, Started->Paused, Started->Completed,
\* Started->Canceled, Paused->Started and Paused->Canceled; for every other
\* pair it raises a BusinessLogicError coded INVALID_STATUS_TRANSITION whose
\* details name the current and the requested status.
C3_TransitionTable ==
    (call # <<>> /\ call[1] = "validate_work_order_status_transition"
       /\ result # <<>>) =>
        IF <<call[2], call[3]>> \in
              {<<"Ready", "Started">>, <<"Ready", "Canceled">>,
               <<"Started", "Paused">>, <<"Started", "Completed">>,
               <<"Started", "Canceled">>, <<"Paused", "Started">>,
               <<"Paused", "Canceled">>}
        THEN ~result.raised
        ELSE /\ result.raised
             /\ result.type = "BusinessLogicError"
             /\ result.error_code = "INVALID_STATUS_TRANSITION"
             /\ result.details = [current_status |-> call[2],
                                  new_status |-> call[3]]

\* Started -> Ready was refused.
C3_Witness ==
    /\ call = <<"validate_work_order_status_transition", "Started", "Ready">>
    /\ result # <<>>
    /\ result.raised
    /\ result.error_code = "INVALID_STATUS_TRANSITION"

----------------------------------------------------------------------------
(* The cost roll-up on its own: calculate_bom_cost_detailed called on a    *)
(* database that holds two bills of materials with their components and    *)
(* operations, some of them deleted.                                       *)

MaxRollUpComponents == 2

MaxRollUpOperations == 2

\* Sequences over S of length at most n.
SeqsUpTo(S, n) == UNION {[1..k -> S] : k \in 0..n}

\* Rows of bom_components: product 1 at 2 @ 5.00, product 2 at 1 @ 3.00.
RollUpComponentRows ==
    {[bom_id |-> b, product_id |-> x[1], quantity |-> x[2], unit_cost |-> x[3],
      deleted_at |-> d] :
        b \in 1..2, x \in {<<1, 2000, 500>>, <<2, 1000, 300>>},
        d \in {NullDate, 1}}

\* Rows of bom_operations.
RollUpOperationRows ==
    {[bom_id |-> b, duration |-> 30, setup_time |-> s, cost_per_hour |-> 6000,
      deleted_at |-> d] :
        b \in 1..2, s \in {0, 10}, d \in {NullDate, 1}}

\* create_bom_component refuses a second live component of the same product
\* in the same bill of materials.
NoDuplicateComponents(rows) ==
    \A i, j \in DOMAIN rows :
        (/\ i # j
         /\ rows[i].bom_id = rows[j].bom_id
         /\ rows[i].product_id = rows[j].product_id
         /\ rows[i].deleted_at = NullDate)
            => rows[j].deleted_at # NullDate

\* The pending call runs to its end.
RunCalculateBomCostDetailed ==
    /\ call # <<>>
    /\ call[1] = "calculate_bom_cost_detailed"
    /\ result = <<>>
    /\ result' = CalculateBomCostDetailed(bom_components, bom_operations, call[2])
    /\ UNCHANGED <<autoflush, today, last, call, ordersVars, stockVars, bomVars,
                   requests>>

InitRollUp ==
    /\ autoflush = FALSE
    /\ today = 1
    /\ last = Response("none", 0, 0, None)
    /\ mos = <<>>
    /\ wos = <<>>
    /\ products = [i \in 1..2 |->
                      [sku |-> IF i = 1 THEN "SKU-A" ELSE "SKU-B", unit_cost |-> 0,
                       stock_quantity |-> 0, deleted_at |-> NullDate]]
    /\ stock_moves = <<>>
    /\ boms = [i \in 1..2 |->
                  [product_id |-> i, version |-> "v1", total_cost |-> 0,
                   deleted_at |-> NullDate]]
    /\ bom_components \in SeqsUpTo(RollUpComponentRows, MaxRollUpComponents)
    /\ NoDuplicateComponents(bom_components)
    /\ bom_operations \in SeqsUpTo(RollUpOperationRows, MaxRollUpOperations)
    /\ call \in {<<"calculate_bom_cost_detailed", b>> : b \in 1..2}
    /\ result = <<>>
    /\ requests = <<>>

NextRollUp == RunCalculateBomCostDetailed

SpecRollUp == InitRollUp /\ [][NextRollUp]_vars

----------------------------------------------------------------------------
(* Properties of the cost roll-up. *)

\* The sum of f[x] over the x of S.
RECURSIVE SumOver(_, _)
SumOver(S, f) ==
    IF S = {} THEN 0
    ELSE LET x == CHOOSE y \in S : TRUE
         IN f[x] + SumOver(S \ {x}, f)

\* The rows of a bill of materials that are not deleted, by position.
LiveOf(rows, b) ==
    {i \in DOMAIN rows : rows[i].bom_id = b /\ rows[i].deleted_at = NullDate}

RolledUp ==
    /\ call # <<>>
    /\ call[1] = "calculate_bom_cost_detailed"
    /\ result # <<>>

Reordered(rows, pi) == [i \in DOMAIN rows |-> rows[pi[i]]]

----------------------------------------------------------------------------
(* Order numbering over several days: orders are created and deleted one   *)
(* request after the other while the clock moves on.                       *)

MaxNumbered == 3

MaxDay == 2

\* Midnight passes: datetime.now() returns the next day from now on.
AdvanceDay ==
    /\ today < MaxDay
    /\ today' = today + 1
    /\ UNCHANGED <<autoflush, last, ordersVars, stockVars, bomVars, helperVars,
                   requests>>

InitNumbers ==
    /\ autoflush = FALSE
    /\ today = 1
    /\ last = Response("none", 0, 0, None)
    /\ mos = <<>>
    /\ wos = <<>>
    /\ products = <<>>
    /\ stock_moves = <<>>
    /\ boms = <<>>
    /\ bom_components = <<>>
    /\ bom_operations = <<>>
    /\ call = <<>>
    /\ result = <<>>
    /\ requests = <<>>

NextNumbers ==
    \/ Len(mos) < MaxNumbered /\ CreateManufacturingOrder("Started", 1)
    \/ Len(wos) < MaxNumbered /\ CreateWorkOrder(1, "Started", None)
    \/ \E id \in 1..MaxNumbered : DeleteManufacturingOrder(id)
    \/ AdvanceDay

SpecNumbers == InitNumbers /\ [][NextNumbers]_vars

----------------------------------------------------------------------------
(* Properties of the order numbering. *)

\* The rows of a table are numbered in sequence: the k-th order created on
\* a date holds the prefix, that date and the counter 000k.
NumberedInSequence(rows, prefix) ==
    \A i \in DOMAIN rows :
        LET n == rows[i].order_number
            k == Cardinality({j \in 1..i : rows[j].order_number.date = n.date})
        IN /\ n.prefix = prefix
           /\ n.date <= today
           /\ \A j \in 1..i : rows[j].order_number.date <= n.date
           /\ n.counter = <<0, 0, 0, k>>

\* C13: orders created one after the other get PREFIX-YYYYMMDD-NNNN with the
\* counters 0001, 0002, 0003, ... of their date, without a gap or a
\* duplicate; the first order of a new date gets 0001, and manufacturing
\* orders and work orders are counted apart.
C13_SequentialNumbers ==
    /\ NumberedInSequence(mos, "MO")
    /\ NumberedInSequence(wos, "WO")

\* MO-1-0001 (deleted), MO-1-0002, MO-2-0001 and WO-2-0001 were issued.
C13_Witness ==
    /\ Len(mos) = 3
    /\ mos[1].deleted_at # NullDate
    /\ mos[2].order_number = [prefix |-> "MO", date |-> 1, counter |-> <<0, 0, 0, 2>>]
    /\ mos[3].order_number = [prefix |-> "MO", date |-> 2, counter |-> <<0, 0, 0, 1>>]
    /\ Len(wos) = 1
    /\ wos[1].order_number = [prefix |-> "WO", date |-> 2, counter |-> <<0, 0, 0, 1>>]

\* C29: no creation is refused because its number is taken, and the number
\* of a created order differs from the number of every row of its table,
\* the soft-deleted rows included.
C29_NumbersNeverReused ==
    [][/\ last'.code # 500
       /\ Len(mos') > Len(mos) =>
             \A i \in DOMAIN mos :
                 mos[i].order_number # mos'[Len(mos')].order_number
       /\ Len(wos') > Len(wos) =>
             \A i \in DOMAIN wos :
                 wos[i].order_number # wos'[Len(wos')].order_number]_vars

\* MO-1-0002, the highest number of its date, was deleted, and the order
\* created after that got MO-1-0003.
C29_Witness ==
    /\ last.op = "create_manufacturing_order"
    /\ last.code = 200
    /\ Len(mos) = 3
    /\ mos[2].order_number = [prefix |-> "MO", date |-> 1, counter |-> <<0, 0, 0, 2>>]
    /\ mos[2].deleted_at # NullDate
    /\ mos[3].order_number = [prefix |-> "MO", date |-> 1, counter |-> <<0, 0, 0, 3>>]


----------------------------------------------------------------------------
(* Concurrent order creations.  A request first reads the last order of    *)
(* its scope and computes its number; its INSERT reaches the database      *)
(* when it commits, and other requests may run their query in between.     *)

MaxRequests == 3

\* create_manufacturing_order, from the query to the number.
BeginCreateManufacturingOrder(s) ==
    /\ requests' = Append(requests,
                      [handler      |-> "create_manufacturing_order",
                       order_number |-> NextOrderNumber(mos, "MO", today),
                       parent       |-> UnsetRef,
                       status_id    |-> s,
                       code         |-> 0])
    /\ UNCHANGED <<autoflush, today, last, ordersVars, stockVars, bomVars,
                   helperVars>>

\* create_work_order, from the query to the number.
BeginCreateWorkOrder(m, s) ==
    /\ m \in DOMAIN mos
    /\ requests' = Append(requests,
                      [handler      |-> "create_work_order",
                       order_number |-> NextOrderNumber(wos, "WO", today),
                       parent       |-> m,
                       status_id    |-> s,
                       code         |-> 0])
    /\ UNCHANGED <<autoflush, today, last, ordersVars, stockVars, bomVars,
                   helperVars>>

\* db.add(new_order); db.commit() of request r.
CommitCreateOrder(r) ==
    /\ r \in DOMAIN requests
    /\ requests[r].code = 0
    /\ LET q == requests[r]
           isMO == q.handler = "create_manufacturing_order"
           taken == NumberTaken(IF isMO THEN mos ELSE wos, q.order_number)
       IN /\ requests' = [requests EXCEPT ![r].code = IF taken THEN 500 ELSE 200]
          /\ last' = Response(q.handler, IF taken THEN 500 ELSE 200, 0, None)
          /\ mos' = IF isMO /\ ~taken
                    THEN Append(mos,
                            [order_number    |-> q.order_number,
                             quantity        |-> 1,
                             status_id       |-> q.status_id,
                             actual_end_date |-> NullDate,
                             deleted_at      |-> NullDate])
                    ELSE mos
          /\ wos' = IF ~isMO /\ ~taken
                    THEN Append(wos,
                            [order_number           |-> q.order_number,
                             manufacturing_order_id |-> q.parent,
                             status_id              |-> q.status_id,
                             assigned_to_id         |-> None,
                             deleted_at             |-> NullDate])
                    ELSE wos
    /\ UNCHANGED <<autoflush, today, stockVars, bomVars, helperVars>>

NextConcurrentNumbers ==
    \/ Len(requests) < MaxRequests /\ BeginCreateManufacturingOrder("Started")
    \/ Len(requests) < MaxRequests /\ BeginCreateWorkOrder(1, "Started")
    \/ \E r \in 1..MaxRequests : CommitCreateOrder(r)
    \/ \E id \in 1..MaxRequests : DeleteManufacturingOrder(id)
    \/ AdvanceDay

SpecConcurrentNumbers == InitNumbers /\ [][NextConcurrentNumbers]_vars

\* C14: whatever the interleaving of concurrent creations, no two stored
\* orders of a table hold the same order number.
C14_NumbersUnique ==
    /\ \A i, j \in DOMAIN mos :
          i # j => mos[i].order_number # mos[j].order_number
    /\ \A i, j \in DOMAIN wos :
          i # j => wos[i].order_number # wos[j].order_number

\* Two requests computed the same number; one stored its order, the other
\* was refused by the database.
C14_Witness ==
    \E r1, r2 \in DOMAIN requests :
        /\ r1 # r2
        /\ requests[r1].order_number = requests[r2].order_number
        /\ requests[r1].code = 200
        /\ requests[r2].code = 500
        /\ \E i \in DOMAIN mos : mos[i].order_number = requests[r1].order_number

----------------------------------------------------------------------------
(* Concurrent stock moves.  A request loads the product with its first     *)
(* query; it computes the new stock and cost from the loaded object and    *)
(* its UPDATE and INSERT reach the database when it commits.  The handler  *)
(* takes no lock and the product carries no version counter.               *)

\* create_stock_move, the queries: the product as the request loads it.
BeginCreateStockMove(p, mt, loc, q, c) ==
    /\ LiveRow(products, p)
    /\ mt \in MoveTypeNames
    /\ loc \in LocationIds
    /\ requests' = Append(requests,
                      [handler     |-> "create_stock_move",
                       product_id  |-> p,
                       move_type   |-> mt,
                       location_id |-> loc,
                       quantity    |-> q,
                       unit_cost   |-> c,
                       loaded      |-> products[p],
                       code        |-> 0])
    /\ UNCHANGED <<autoflush, today, last, ordersVars, stockVars, bomVars,
                   helperVars>>

\* create_stock_move, from db.add(new_stock_move) to db.commit(): the UPDATE
\* sets the columns whose attribute the handler changed.
CommitCreateStockMove(r) ==
    /\ r \in DOMAIN requests
    /\ requests[r].code = 0
    /\ LET m == requests[r]
           new == ApplyMove(m.loaded, m.move_type, m.quantity, m.unit_cost)
       IN IF m.move_type = "Issue"
             /\ InsufficientStock(m.loaded.stock_quantity, m.quantity)
          THEN /\ requests' = [requests EXCEPT ![r].code = 400]
               /\ last' = InsufficientStockResponse(m.product_id, m.move_type,
                                                    m.quantity, m.unit_cost,
                                                    m.loaded)
               /\ UNCHANGED stockVars
          ELSE /\ requests' = [requests EXCEPT ![r].code = 200]
               /\ stock_moves' = Append(stock_moves,
                                    [product_id |-> m.product_id,
                                     move_type |-> m.move_type,
                                     quantity |-> m.quantity,
                                     unit_cost |-> m.unit_cost,
                                     location_id |-> m.location_id,
                                     notes |-> None,
                                     deleted_at |-> NullDate])
               /\ products' = [products EXCEPT
                     ![m.product_id].stock_quantity =
                         IF new.stock_quantity # m.loaded.stock_quantity
                         THEN new.stock_quantity ELSE @,
                     ![m.product_id].unit_cost =
                         IF new.unit_cost # m.loaded.unit_cost
                         THEN new.unit_cost ELSE @]
               /\ last' = StockResponse("create_stock_move", 200, None,
                                        m.product_id, m.move_type, m.quantity,
                                        m.unit_cost)
    /\ UNCHANGED <<autoflush, today, ordersVars, bomVars, helperVars>>

\* The stock of the product the concurrent moves work on.
ContendedStocks == {50}

NextConcurrentStock ==
    \/ \E sku \in Skus, cost \in InitialCosts, stock \in ContendedStocks :
          CreateProduct(sku, cost, stock)
    \/ \E p \in ProductIds, mt \in MoveTypeNames, loc \in LocationIds,
          q \in Quantities, c \in UnitCosts :
          Len(requests) < MaxRequests /\ BeginCreateStockMove(p, mt, loc, q, c)
    \/ \E r \in 1..MaxRequests : CommitCreateStockMove(r)

SpecConcurrentStock == InitStock /\ [][NextConcurrentStock]_vars

\* The product after the moves of the requests ms, one after the other,
\* a refused Issue leaving it as it is.
RECURSIVE AppliedInTurn(_, _)
AppliedInTurn(product, ms) ==
    IF ms = <<>> THEN product
    ELSE LET m == Head(ms) IN
         AppliedInTurn(
             IF m.move_type = "Issue" /\ product.stock_quantity < m.quantity
             THEN product
             ELSE ApplyMove(product, m.move_type, m.quantity, m.unit_cost),
             Tail(ms))

\* C15: once concurrent moves on a product have all ended, its stock and
\* unit cost are those of the moves applied one after the other in some
\* order to the product the first request loaded.
C15_MovesSerializable ==
    (requests # <<>> /\ \A r \in DOMAIN requests : requests[r].code # 0) =>
        \E pi \in Permutations(DOMAIN requests) :
            LET serial == AppliedInTurn(requests[1].loaded,
                                        [i \in DOMAIN requests |-> requests[pi[i]]])
            IN /\ products[1].stock_quantity = serial.stock_quantity
               /\ products[1].unit_cost = serial.unit_cost

-----------------------------------------------------------------------------
(* Role based access control: the Permission enumeration, the static role  *)
(* table and the checks over it. A user is identified with the name of its *)
(* role, None for a user that has no role.                                 *)

\* class Permission: the values of the enumeration.
Permission ==
    {"create_user", "read_user", "update_user", "delete_user",
     "create_product", "read_product", "update_product", "delete_product",
     "create_bom", "read_bom", "update_bom", "delete_bom",
     "create_work_center", "read_work_center", "update_work_center",
     "delete_work_center",
     "create_manufacturing_order", "read_manufacturing_order",
     "update_manufacturing_order", "delete_manufacturing_order",
     "approve_manufacturing_order",
     "create_work_order", "read_work_order", "update_work_order",
     "delete_work_order", "start_work_order", "pause_work_order",
     "complete_work_order",
     "create_stock_move", "read_stock_move", "update_stock_move",
     "delete_stock_move",
     "read_reports", "export_reports", "read_analytics",
     "manage_roles", "manage_system", "view_audit_logs"}

\* An Admin list that leaves the system administration out.
AdminPermissionsWithoutSystem ==
    Permission \ {"manage_roles", "manage_system", "view_audit_logs"}

\* [permission.value for permission in Permission]
AdminPermissions == Permission

\* A manager list that also holds the user mutations.
ManufacturingManagerPermissionsWithUsers ==
    Permission \ {"manage_roles", "manage_system", "view_audit_logs"}

ManufacturingManagerPermissions ==
    {"create_manufacturing_order", "read_manufacturing_order",
     "update_manufacturing_order", "delete_manufacturing_order",
     "approve_manufacturing_order",
     "create_work_order", "read_work_order", "update_work_order",
     "delete_work_order", "start_work_order", "pause_work_order",
     "complete_work_order",
     "create_product", "read_product", "update_product", "delete_product",
     "create_bom", "read_bom", "update_bom", "delete_bom",
     "create_work_center", "read_work_center", "update_work_center",
     "delete_work_center",
     "create_stock_move", "read_stock_move", "update_stock_move",
     "delete_stock_move",
     "read_reports", "export_reports", "read_analytics",
     "read_user"}

OperatorPermissions ==
    {"read_manufacturing_order",
     "read_work_order", "update_work_order", "start_work_order",
     "pause_work_order", "complete_work_order",
     "read_product", "read_bom", "read_work_center",
     "read_stock_move", "create_stock_move"}

InventoryManagerPermissions ==
    {"read_product", "update_product",
     "create_stock_move", "read_stock_move", "update_stock_move",
     "delete_stock_move",
     "read_manufacturing_order", "read_work_order",
     "read_reports", "export_reports"}

\* The lists are only ever searched, so each is kept as a set.
ROLE_PERMISSIONS ==
    [Admin                |-> AdminPermissions,
     ManufacturingManager |-> ManufacturingManagerPermissions,
     Operator             |-> OperatorPermissions,
     InventoryManager     |-> InventoryManagerPermissions]

\* A lookup that falls back on the Operator list.
UserPermissionsDefaultOperator(role_name) ==
    IF role_name \in DOMAIN ROLE_PERMISSIONS
    THEN ROLE_PERMISSIONS[role_name] ELSE ROLE_PERMISSIONS["Operator"]

\* ROLE_PERMISSIONS.get(role_name, [])
UserPermissions(role_name) ==
    IF role_name \in DOMAIN ROLE_PERMISSIONS
    THEN ROLE_PERMISSIONS[role_name] ELSE {}

\* A function that returned value.
ReturnedValue(value) == [raised |-> FALSE, value |-> value]

\* HTTPException(status_code, detail), raised.
HTTPException(status_code, detail) ==
    [raised      |-> TRUE,
     type        |-> "HTTPException",
     status_code |-> status_code,
     detail      |-> detail]

has_permission(role, permission) ==
    IF role = None THEN FALSE
    ELSE permission \in UserPermissions(role)

\* The dependency require_permission(permission) builds, called for a user.
require_permission(role, permission) ==
    IF ~has_permission(role, permission)
    THEN HTTPException(403, <<"Permission denied. Required permission: ",
                              permission>>)
    ELSE ReturnedValue(role)

get_user_permissions(role) ==
    IF role = None THEN {} ELSE UserPermissions(role)

\* The roles of the users the checks are called for: none, the four of the
\* table, and names the table does not hold.
RoleArguments ==
    {None, "Admin", "ManufacturingManager", "Operator", "InventoryManager",
     "Guest", "admin", ""}

RunHasPermission ==
    /\ call[1] = "has_permission"
    /\ result = <<>>
    /\ result' = ReturnedValue(has_permission(call[2], call[3]))
    /\ UNCHANGED <<autoflush, today, last, call, ordersVars, stockVars, bomVars,
                   requests>>

RunRequirePermission ==
    /\ call[1] = "require_permission"
    /\ result = <<>>
    /\ result' = require_permission(call[2], call[3])
    /\ UNCHANGED <<autoflush, today, last, call, ordersVars, stockVars, bomVars,
                   requests>>

InitPermissions ==
    /\ autoflush = FALSE
    /\ today = 1
    /\ last = Response("none", 0, 0, None)
    /\ mos = <<>>
    /\ wos = <<>>
    /\ products = <<>>
    /\ stock_moves = <<>>
    /\ boms = <<>>
    /\ bom_components = <<>>
    /\ bom_operations = <<>>
    /\ call \in {<<f, role, permission>> :
                    f \in {"has_permission", "require_permission"},
                    role \in RoleArguments, permission \in Permission}
    /\ result = <<>>
    /\ requests = <<>>

NextPermissions == RunHasPermission \/ RunRequirePermission

SpecPermissions == InitPermissions /\ [][NextPermissions]_vars

-----------------------------------------------------------------------------
(* Properties of the permission checks. *)

\* C17: has_permission is true for each of the permissions of the
\* enumeration when the role of the user is Admin.
C17_AdminHoldsEveryPermission ==
    (call[1] = "has_permission" /\ call[2] = "Admin" /\ result # <<>>) =>
        result = ReturnedValue(TRUE)

C17_Witness ==
    /\ call = <<"has_permission", "Admin", "manage_system">>
    /\ result = ReturnedValue(TRUE)

C19_AdministrationIsAdminOnly ==
    (/\ call[1] = "has_permission"
     /\ result # <<>>
     /\ \/ /\ call[2] \in {"ManufacturingManager", "Operator",
                           "InventoryManager"}
           /\ call[3] \in {"create_user", "update_user", "delete_user",
                           "manage_roles", "manage_system", "view_audit_logs"}
        \/ /\ call[2] \in {"Operator", "InventoryManager"}
           /\ call[3] \in {"create_manufacturing_order", "create_work_order"})
    => result = ReturnedValue(FALSE)

C19_Witness ==
    /\ call = <<"has_permission", "ManufacturingManager", "update_user">>
    /\ result = ReturnedValue(FALSE)

-----------------------------------------------------------------------------
(* The handlers that declare no dependency on a user, create_product and   *)
(* create_bom, called by a sender of a given role. The sender of the       *)
(* requests of a behaviour is kept in call.                                *)

\* The roles of the senders: none, and the four of the role table.
SenderRoles ==
    {None, "Admin", "ManufacturingManager", "Operator", "InventoryManager"}

InitSender ==
    /\ autoflush \in BOOLEAN
    /\ today = 1
    /\ last = Response("none", 0, 0, None)
    /\ mos = <<>>
    /\ wos = <<>>
    /\ products = <<>>
    /\ stock_moves = <<>>
    /\ boms = <<>>
    /\ bom_components = <<>>
    /\ bom_operations = <<>>
    /\ call \in {<<"sender", role>> : role \in SenderRoles}
    /\ result = <<>>
    /\ requests = <<>>

NextSender ==
    \/ \E sku \in ComponentSkus : CreateProduct(sku, 0, 0)
    \/ \E p \in 1..Cardinality(ComponentSkus), v \in Versions, cost \in TotalCosts :
          CreateBom(p, v, cost)

SpecSender == InitSender /\ [][NextSender]_vars

\* C16: a bill of materials is created only by a request whose sender holds
\* the permission create_bom; a request of any other sender leaves the table
\* of the bills of materials as it is.
C16_MutationsGated ==
    [][boms' # boms => has_permission(call[2], "create_bom")]_vars

-----------------------------------------------------------------------------
(* The ledger after its records were written: update_stock_move and        *)
(* delete_stock_move, called by a user the admin dependency let through.   *)

\* Values a StockMoveUpdate body may carry; None is a field that is null or
\* left out.
UpdateNotes == {None, "recount"}

UpdateQuantities == {UnsetRef, 50}

UpdateUnitCosts == {UnsetRef, 1600}

\* An update that writes every field the body carries.
UpdatedStockMoveAllFields(stock_move, stock_move_update) ==
    [stock_move EXCEPT
        !.notes = IF stock_move_update.notes # None
                  THEN stock_move_update.notes ELSE @,
        !.quantity = IF stock_move_update.quantity # UnsetRef
                     THEN stock_move_update.quantity ELSE @,
        !.unit_cost = IF stock_move_update.unit_cost # UnsetRef
                      THEN stock_move_update.unit_cost ELSE @]

\* The row after update_stock_move: only notes is ever assigned.
UpdatedStockMove(stock_move, stock_move_update) ==
    [stock_move EXCEPT
        !.notes = IF stock_move_update.notes # None
                  THEN stock_move_update.notes ELSE @]

UpdateStockMove(id, stock_move_update) ==
    /\ IF ~LiveRow(stock_moves, id)
       THEN /\ last' = StockResponse("update_stock_move", 404,
                                     "Stock move not found", 0, None, 0, 0)
            /\ UNCHANGED stock_moves
       ELSE /\ stock_moves' = [stock_moves EXCEPT
                                 ![id] = UpdatedStockMove(@, stock_move_update)]
            /\ last' = StockResponse("update_stock_move", 200, None,
                                     stock_moves[id].product_id, None, 0, 0)
    /\ UNCHANGED <<autoflush, today, products, ordersVars, bomVars, helperVars,
                   requests>>

DeleteStockMove(id) ==
    /\ IF ~LiveRow(stock_moves, id)
       THEN /\ last' = StockResponse("delete_stock_move", 404,
                                     "Stock move not found", 0, None, 0, 0)
            /\ UNCHANGED stock_moves
       ELSE /\ stock_moves' = [stock_moves EXCEPT ![id].deleted_at = today]
            /\ last' = StockResponse("delete_stock_move", 204, None,
                                     stock_moves[id].product_id, None, 0, 0)
    /\ UNCHANGED <<autoflush, today, products, ordersVars, bomVars, helperVars,
                   requests>>

NextLedger ==
    \/ \E sku \in Skus, c \in InitialCosts, s \in InitialStocks :
          CreateProduct(sku, c, s)
    \/ \E p \in ProductIds, mt \in MoveTypeNames, loc \in LocationIds,
          q \in Quantities, c \in UnitCosts : CreateStockMove(p, mt, loc, q, c)
    \/ \E id \in 1..MaxMoves, n \in UpdateNotes, q \in UpdateQuantities,
          c \in UpdateUnitCosts :
          UpdateStockMove(id, [notes |-> n, quantity |-> q, unit_cost |-> c])
    \/ \E id \in 1..MaxMoves : DeleteStockMove(id)

SpecLedger == InitStock /\ [][NextLedger]_vars

\* The fields of a ledger record that say what was moved.
Applied(stock_move) ==
    <<stock_move.product_id, stock_move.move_type, stock_move.quantity,
      stock_move.unit_cost, stock_move.location_id>>

-----------------------------------------------------------------------------
(* More properties of create_stock_move. *)

\* C22: a Receipt request whose quantity is zero or negative is refused and
\* changes neither the products nor the ledger.
C22_ReceiptQuantityPositive ==
    [][(/\ last'.op = "create_stock_move"
        /\ last'.move_type = "Receipt"
        /\ last'.quantity <= 0)
          => /\ last'.code # 200
             /\ products' = products
             /\ stock_moves' = stock_moves]_vars

\* C23: an Issue that is applied takes its quantity from the stock of its
\* product, an Adjustment that is applied adds its signed quantity, both
\* leave the unit cost as it was, and no move changes another product.
C23_OnlyReceiptChangesUnitCost ==
    [][(/\ last'.op = "create_stock_move"
        /\ last'.code = 200
        /\ last'.move_type \in {"Issue", "Adjustment"})
          => LET p == last'.product_id IN
             /\ DOMAIN products' = DOMAIN products
             /\ products'[p].unit_cost = products[p].unit_cost
             /\ products'[p].stock_quantity =
                    IF last'.move_type = "Issue"
                    THEN products[p].stock_quantity - last'.quantity
                    ELSE products[p].stock_quantity + last'.quantity
             /\ \A o \in DOMAIN products : o # p => products'[o] = products[o]]_vars

\* A Receipt of 50 at 16.00 on 100 at 10.00 made the unit cost 12.00; an
\* Issue of 30 was then applied from 150 and the unit cost is still 12.00.
C23_Witness ==
    /\ MoveApplied("Issue")
    /\ last.quantity = 30
    /\ Len(stock_moves) = 2
    /\ stock_moves[1].move_type = "Receipt"
    /\ products[last.product_id].stock_quantity = 120
    /\ products[last.product_id].unit_cost = 1200

\* C25: an Issue is refused exactly when the stock is below its quantity,
\* and the refusal carries the required and the available quantity.
C25_RefusalCarriesRequiredAndAvailable ==
    [][MoveRequested("Issue") =>
          /\ last'.code = 400 <=>
                 products[last'.product_id].stock_quantity < last'.quantity
          /\ last'.code = 400 =>
                 /\ "Required" \in DOMAIN last'.interpolated
                 /\ last'.interpolated.Required = last'.quantity
                 /\ last'.interpolated.Available =
                        products[last'.product_id].stock_quantity]_vars

\* C27: an Adjustment on an existing product, type and location is always
\* applied, the stock becoming the old stock plus the signed quantity, also
\* when that is below zero.
C27_AdjustmentHasNoFloor ==
    [][(/\ last'.op = "create_stock_move"
        /\ last'.move_type = "Adjustment"
        /\ last'.code # 404)
          => /\ last'.code = 200
             /\ products'[last'.product_id].stock_quantity =
                    products[last'.product_id].stock_quantity + last'.quantity]_vars

\* An Adjustment of -30 was applied to a product that held 20.
C27_Witness ==
    /\ MoveApplied("Adjustment")
    /\ last.quantity = -30
    /\ Len(stock_moves) = 1
    /\ products[last.product_id].stock_quantity = -10

-----------------------------------------------------------------------------
(* Manufacturing orders with the quantity of the request. *)

MaxQuantityOrders == 2

\* Quantities a request may carry.
OrderQuantities == {-5, 0, 1, 10000, 10001}

NextQuantities ==
    \/ \E s \in {"Started", "Done"}, quantity \in OrderQuantities :
          Len(mos) < MaxQuantityOrders /\ CreateManufacturingOrder(s, quantity)
    \/ \E id \in 1..MaxQuantityOrders, quantity \in OrderQuantities \cup {UnsetRef} :
          UpdateManufacturingOrder(id, Unset, UnsetRef, quantity)
    \/ \E id \in 1..MaxQuantityOrders : DeleteManufacturingOrder(id)

SpecQuantities == InitOrders /\ [][NextQuantities]_vars

\* C24: no manufacturing order that a create or an update request wrote
\* holds a quantity outside 1..10000.
C24_QuantityInRange ==
    \A i \in DOMAIN mos : mos[i].quantity \in 1..10000

-----------------------------------------------------------------------------
(* The exception classes, the quantity and stock validators and the map    *)
(* from an exception to its HTTP status.                                   *)

\* ValidationError(message, field, value), raised.
ValidationError(message, field, value) ==
    [raised     |-> TRUE,
     type       |-> "ValidationError",
     message    |-> message,
     error_code |-> "VALIDATION_ERROR",
     details    |-> [field |-> field, value |-> value]]

\* An exception of class type built with the arguments of the tests; for a
\* BusinessLogicError error_code is the code it is given, None for no code.
\* Only the class, the message and the code are kept.
TrackMintException(type, error_code) ==
    [raised     |-> TRUE,
     type       |-> type,
     message    |-> "test",
     error_code |->
        IF type = "ValidationError" THEN "VALIDATION_ERROR"
        ELSE IF type = "ResourceNotFoundError" THEN "RESOURCE_NOT_FOUND"
        ELSE IF type = "PermissionDeniedError" THEN "PERMISSION_DENIED"
        ELSE IF type = "ConflictError" THEN "CONFLICT_ERROR"
        ELSE IF type = "ExternalServiceError" THEN "EXTERNAL_SERVICE_ERROR"
        ELSE BusinessLogicError("test", error_code, <<>>).error_code]

\* The exception classes and the codes a BusinessLogicError is raised with.
ExceptionTypes ==
    {"ValidationError", "ResourceNotFoundError", "PermissionDeniedError",
     "ConflictError", "ExternalServiceError", "BusinessLogicError"}

BusinessErrorCodes ==
    {None, "INSUFFICIENT_STOCK", "INVALID_STATUS_TRANSITION",
     "QUANTITY_LIMIT_EXCEEDED"}

get_status_code_for_error(error) ==
    LET error_code == error.error_code IN
    IF error_code = "VALIDATION_ERROR" THEN 422
    ELSE IF error_code = "RESOURCE_NOT_FOUND" THEN 404
    ELSE IF error_code = "PERMISSION_DENIED" THEN 403
    ELSE IF error_code = "CONFLICT_ERROR" THEN 409
    ELSE IF error_code = "BUSINESS_LOGIC_ERROR" THEN 400
    ELSE IF error_code = "EXTERNAL_SERVICE_ERROR" THEN 502
    ELSE 500

validate_manufacturing_order_quantity(quantity) ==
    IF quantity <= 0
    THEN ValidationError("Manufacturing order quantity must be greater than 0",
                         "quantity", quantity)
    ELSE IF quantity > 10000
    THEN BusinessLogicError(
             "Manufacturing order quantity cannot exceed 10,000 units",
             "QUANTITY_LIMIT_EXCEEDED",
             [quantity |-> quantity, max_quantity |-> 10000])
    ELSE Returned

validate_stock_availability(product_id, required_quantity, available_quantity) ==
    IF available_quantity < required_quantity
    THEN BusinessLogicError(
             <<"Insufficient stock. Required: ", required_quantity,
               ", Available: ", available_quantity>>,
             "INSUFFICIENT_STOCK",
             [product_id         |-> product_id,
              required_quantity  |-> required_quantity,
              available_quantity |-> available_quantity])
    ELSE Returned

\* Arguments of the calls.
QuantityArguments == {-5, 0, 1, 100, 1000, 9999, 10000, 10001, 15000}

RequiredArguments == {0, 20, 30, 50, 100}

AvailableArguments == {0, 20, 30, 50, 100, 150}

RunGetStatusCodeForError ==
    /\ call[1] = "get_status_code_for_error"
    /\ result = <<>>
    /\ result' = ReturnedValue(
                     get_status_code_for_error(TrackMintException(call[2], call[3])))
    /\ UNCHANGED <<autoflush, today, last, call, ordersVars, stockVars, bomVars,
                   requests>>

RunValidateManufacturingOrderQuantity ==
    /\ call[1] = "validate_manufacturing_order_quantity"
    /\ result = <<>>
    /\ result' = validate_manufacturing_order_quantity(call[2])
    /\ UNCHANGED <<autoflush, today, last, call, ordersVars, stockVars, bomVars,
                   requests>>

RunValidateStockAvailability ==
    /\ call[1] = "validate_stock_availability"
    /\ result = <<>>
    /\ result' = validate_stock_availability(call[2], call[3], call[4])
    /\ UNCHANGED <<autoflush, today, last, call, ordersVars, stockVars, bomVars,
                   requests>>

InitValidators ==
    /\ autoflush = FALSE
    /\ today = 1
    /\ last = Response("none", 0, 0, None)
    /\ mos = <<>>
    /\ wos = <<>>
    /\ products = <<>>
    /\ stock_moves = <<>>
    /\ boms = <<>>
    /\ bom_components = <<>>
    /\ bom_operations = <<>>
    /\ \/ call \in {<<"get_status_code_for_error", type, None>> :
                       type \in ExceptionTypes \ {"BusinessLogicError"}}
       \/ call \in {<<"get_status_code_for_error", "BusinessLogicError", code>> :
                       code \in BusinessErrorCodes}
       \/ call \in {<<"validate_manufacturing_order_quantity", q>> :
                       q \in QuantityArguments}
       \/ call \in {<<"validate_stock_availability", p, r, a>> :
                       p \in {"product-1", "product-2"},
                       r \in RequiredArguments, a \in AvailableArguments}
    /\ result = <<>>
    /\ requests = <<>>

NextValidators ==
    \/ RunGetStatusCodeForError
    \/ RunValidateManufacturingOrderQuantity
    \/ RunValidateStockAvailability

SpecValidators == InitValidators /\ [][NextValidators]_vars

\* C26: get_status_code_for_error returns 422 for a ValidationError, 404 for
\* a ResourceNotFoundError, 403 for a PermissionDeniedError, 409 for a
\* ConflictError, 502 for an ExternalServiceError and 400 for every
\* BusinessLogicError, whatever the code it was raised with.
C26_StableStatusCodes ==
    (call[1] = "get_status_code_for_error" /\ result # <<>>) =>
        result.value =
            CASE call[2] = "ValidationError"       -> 422
              [] call[2] = "ResourceNotFoundError" -> 404
              [] call[2] = "PermissionDeniedError" -> 403
              [] call[2] = "ConflictError"         -> 409
              [] call[2] = "ExternalServiceError"  -> 502
              [] call[2] = "BusinessLogicError"    -> 400

-----------------------------------------------------------------------------
(* Status updates by one current user, kept in call: the admin, the        *)
(* operator work orders are assigned to, or another operator.              *)

CurrentUsers == {"admin", "op1", "op2"}

InitCurrentUser ==
    /\ autoflush \in BOOLEAN
    /\ today = 1
    /\ mos = <<>>
    /\ wos = <<>>
    /\ last = Response("none", 0, 0, None)
    /\ products = <<>>
    /\ stock_moves = <<>>
    /\ boms = <<>>
    /\ bom_components = <<>>
    /\ bom_operations = <<>>
    /\ call \in {<<"current_user", u>> : u \in CurrentUsers}
    /\ result = <<>>
    /\ requests = <<>>

NextCurrentUser ==
    \/ Len(mos) < MaxMO /\ CreateManufacturingOrder("Started", 1)
    \/ \E m \in 1..MaxMO, s \in {"Started", "Done"}, a \in Assignees :
          Len(wos) < MaxWO /\ CreateWorkOrder(m, s, a)
    \/ \E id \in 1..MaxWO, s \in StatusNames :
          UpdateWorkOrderStatus(call[2], id, s)

SpecCurrentUser == InitCurrentUser /\ [][NextCurrentUser]_vars

-----------------------------------------------------------------------------
(* A date on which the counter of the manufacturing orders nears the end   *)
(* of its four digits: the table holds the orders 0001, 0002, ... that as  *)
(* many creations of the date have left.                                   *)

\* The greatest counter f"{n:04d}" writes in four digits.
FourDigits == 9999

\* The table after n creations on date 1.
CreatedOnOneDate(n) ==
    [k \in 1..n |->
        [order_number    |-> [prefix |-> "MO", date |-> 1, counter |-> Format04d(k)],
         quantity        |-> 1,
         status_id       |-> "Started",
         actual_end_date |-> NullDate,
         deleted_at      |-> NullDate]]

InitLongDate ==
    /\ autoflush = FALSE
    /\ today = 1
    /\ last = Response("none", 0, 0, None)
    /\ mos \in {CreatedOnOneDate(n) : n \in (FourDigits - 1)..(FourDigits + 1)}
    /\ wos = <<>>
    /\ products = <<>>
    /\ stock_moves = <<>>
    /\ boms = <<>>
    /\ bom_components = <<>>
    /\ bom_operations = <<>>
    /\ call = <<>>
    /\ result = <<>>
    /\ requests = <<>>

NextLongDate ==
    \/ \E s \in {"Started", "Done"} :
          Len(mos) <= FourDigits + 1 /\ CreateManufacturingOrder(s, 1)
    \/ \E id \in (FourDigits - 1)..(FourDigits + 1) : DeleteManufacturingOrder(id)

SpecLongDate == InitLongDate /\ [][NextLongDate]_vars

\* C30: the order taken as the last one of the date is the one whose
\* counter is the greatest as a number, and the number computed for the next
\* order carries that counter plus one.
C30_LastIsNumericallyGreatest ==
    LET scope == ScopeRows(mos, "MO", today)
        last_number ==
            ParseInt(mos[LastOrder(mos, "MO", today)].order_number.counter)
        new_number == ParseInt(NextOrderNumber(mos, "MO", today).counter)
    IN scope # {} =>
          /\ \A j \in scope : ParseInt(mos[j].order_number.counter) <= last_number
          /\ new_number = last_number + 1
          /\ \A j \in scope : ParseInt(mos[j].order_number.counter) < new_number

====
